---- MODULE Spec2Model ----
(***************************************************************************)
(* A model of the Remixatron engine (InfiniteJukebox): the constructor's   *)
(* dispatch, the stages of __process_audio, the jump graph, the play       *)
(* vector walker, and the readiness event of the asynchronous mode.        *)
(*                                                                         *)
(* The numerical stages (decoding, CQT, recurrence matrix, eigenvectors,   *)
(* k-means) are library calls; the model keeps what they hand to the rest  *)
(* of the pipeline: the number of beats, the cluster label of each beat,   *)
(* the amplitude of each beat and the tempo, each drawn from a bounded     *)
(* set.  A beat's start time is modelled by its ordinal position: the beat *)
(* times are strictly increasing, so two beat records are never equal and  *)
(* list.index(b) finds b itself.                                           *)
(***************************************************************************)
EXTENDS Integers, Sequences, FiniteSets, TLC

-----------------------------------------------------------------------------
(* Bounds of the model *)

\* the most beats the downbeat tracker (or the beat cache) yields
MaxBeats == 9

\* the same bound where every mode of the constructor is tried (SpecModes)
ModeBeats == 6

\* the most rows and the most columns of a matrix handed to symmetrize_matrix
MaxDim == 2

\* the longest list of labels handed to __segment_stats_from_labels
MaxLabels == 4

\* the cluster count the v2 selector starts from; the code starts from 48
MaxK == 5

\* the longest song whose amplitudes are followed beat by beat (SpecFade)
FadeBeats == 5

\* the longest song of even amplitude whose walk is followed (SpecWalk)
WalkBeats == 10

\* the longest song uploaded more than once (SpecReupload)
UploadBeats == 7

\* how often the same file is uploaded
MaxUploads == 2

\* the largest start_beat argument tried
MaxStartBeat == 1

\* iterations of the walker's loop; the code runs 1024 * 1024 of them
WalkSteps == 4

\* cluster labels k-means may give a beat
ClusterIds == {0, 1}

\* beat-synchronous RMS amplitudes
AmpLevels == {1, 2}

\* tempo in beats per minute, as librosa.feature.tempo reports it
Tempos == {40, 60}

\* the starting_beat_cache argument: the constructor's default None, an
\* empty array (size 0), or an array of downbeats
CacheKinds == {"None", "empty", "array"}

-----------------------------------------------------------------------------
(* Arithmetic helpers *)

MinOf(S) == CHOOSE x \in S : \A y \in S : x <= y

MaxOf(S) == CHOOSE x \in S : \A y \in S : x >= y

AbsVal(x) == IF x < 0 THEN -x ELSE x

\* Python 3 round() of the rational num/den (den > 0): ties go to the even
\* neighbour
RoundHalfEven(num, den) ==
    LET q == num \div den
        r == num % den
    IN  IF 2 * r < den THEN q
        ELSE IF 2 * r > den THEN q + 1
        ELSE IF q % 2 = 0 THEN q ELSE q + 1

\* the values random.randrange(start, stop, step) may return; empty when
\* the range is empty (randrange then raises ValueError)
RandRange(start, stop, step) ==
    {x \in start..(stop - 1) : (x - start) % step = 0}

\* list.index(x), 0-based: the first position whose element equals x
IndexOf(seq, x) ==
    MinOf({i \in 1..Len(seq) : seq[i] = x}) - 1

\* the elements of a sequence of ids, as a set
Range(seq) == {seq[i] : i \in 1..Len(seq)}

\* seq[from:] of Python, from 0-based
SliceFrom(seq, from) ==
    IF from >= Len(seq) THEN << >> ELSE SubSeq(seq, from + 1, Len(seq))

-----------------------------------------------------------------------------
(* Beat assembly: segments and in-segment positions *)

\* the loop of lines 432-464 from beat i on; a beat record keeps the keys
\* the jump graph and the walker read
\* an assembly that numbers the segments by the cluster of their beats
AssembleInfo_SegmentIsCluster(labels) ==
    [k \in 1..Len(labels) |->
        [start |-> k - 1, cluster |-> labels[k], segment |-> labels[k], is |-> 0]]

RECURSIVE AssembleFrom(_, _, _, _, _, _)
AssembleFrom(labels, i, last_cluster, current_segment, segment_beat, acc) ==
    IF i > Len(labels) THEN acc
    ELSE
        LET changed == labels[i] # last_cluster
            seg     == IF changed THEN current_segment + 1 ELSE current_segment
            sb      == IF changed THEN 0 ELSE segment_beat + 1
            final_beat == [start   |-> i - 1,
                           cluster |-> labels[i],
                           segment |-> seg,
                           is      |-> sb]
        IN  AssembleFrom(labels, i + 1, labels[i], seg, sb,
                         Append(acc, final_beat))

\* the list info of the beats before truncation
AssembleInfo(labels) ==
    AssembleFrom(labels, 1, -1, -1, 0, << >>)

RECURSIVE SumAmplitude(_, _)
SumAmplitude(amps, i) ==
    IF i = 0 THEN 0 ELSE amps[i] + SumAmplitude(amps, i - 1)

\* b['amplitude'] >= .75 * max_amplitude, where max_amplitude is the mean
\* sum / len of the amplitudes; in integers
LoudEnough(amps, i) ==
    4 * amps[i] * Len(amps) >= 3 * SumAmplitude(amps, Len(amps))

\* the fade point: the index (0-based) of the last beat that is loud enough,
\* the last index when there is none
FadePoint(amps) ==
    LET loud == {i \in 1..Len(amps) : LoudEnough(amps, i)}
    IN  IF loud = {} THEN Len(amps) - 1 ELSE MaxOf(loud) - 1

\* the longest song of any specification
LongestSong == MaxOf({MaxBeats, ModeBeats})

\* the fade points that the amplitudes of n beats can give
FadePoints ==
    [n \in 1..LongestSong |-> {FadePoint(amps) : amps \in [1..n -> AmpLevels]}]

\* a truncation that leaves the fade beat out
TruncateBeats_ExcludeFade(inf, sb, fade) ==
    IF sb > fade - 1 THEN << >> ELSE SubSeq(inf, sb + 1, fade)

\* info[start_beat : fade + 1]
TruncateBeats(inf, sb, fade) ==
    IF sb > fade THEN << >> ELSE SubSeq(inf, sb + 1, fade + 1)

-----------------------------------------------------------------------------
(* The jump graph *)

\* beat['quartile'] = beat['id'] // (len(beats) / 4.0)
Quartile(id, n) == (4 * id) \div n

\* the beats with their final ids and quartiles (ids are 0-based; the beat
\* with id i is element i + 1 of the sequence)
WithIds(bs) ==
    [k \in 1..Len(bs) |->
        [start     |-> bs[k].start,
         cluster   |-> bs[k].cluster,
         segment   |-> bs[k].segment,
         is        |-> bs[k].is,
         id        |-> IndexOf(bs, bs[k]),
         quartile  |-> Quartile(IndexOf(bs, bs[k]), Len(bs))]]

\* CanonicalNext with the last beat's wrap-around applied one beat early
CanonicalNext_EarlyWrap(bs, i, lbb) ==
    IF i >= Len(bs) - 2
    THEN LET fits == {j \in 0..(Len(bs) - 1) :
                        /\ bs[j + 1].cluster = bs[i + 1].cluster
                        /\ j % 4 = (i + 1) % 4
                        /\ 2 * j <= Len(bs)
                        /\ j >= lbb}
         IN  IF fits = {} THEN lbb ELSE MinOf(fits)
    ELSE i + 1

\* CanonicalNext that wraps around to any beat of the list, loop_bounds_begin
\* ignored
CanonicalNext_WholeList(bs, i, lbb) ==
    IF i = Len(bs) - 1
    THEN LET fits == {j \in 0..(Len(bs) - 1) :
                        /\ bs[j + 1].cluster = bs[i + 1].cluster
                        /\ j % 4 = (i + 1) % 4
                        /\ 2 * j <= Len(bs)}
         IN  IF fits = {} THEN 0 ELSE MinOf(fits)
    ELSE i + 1

\* CanonicalNext that wraps the last beat around to the last fitting beat
CanonicalNext_LastFit(bs, i, lbb) ==
    IF i = Len(bs) - 1
    THEN LET fits == {j \in 0..(Len(bs) - 1) :
                        /\ bs[j + 1].cluster = bs[i + 1].cluster
                        /\ j % 4 = (i + 1) % 4
                        /\ 2 * j <= Len(bs)
                        /\ j >= lbb}
         IN  IF fits = {} THEN lbb ELSE MaxOf(fits)
    ELSE i + 1

\* the canonical next of the beat with id i: i + 1, and for the last beat the
\* first beat of its cluster in the right place of the measure, in the first
\* half of the song and not before loop_bounds_begin (loop_bounds_begin when
\* there is none)
CanonicalNext(bs, i, lbb) ==
    IF i = Len(bs) - 1
    THEN LET fits == {j \in 0..(Len(bs) - 1) :
                        /\ bs[j + 1].cluster = bs[i + 1].cluster
                        /\ j % 4 = (i + 1) % 4
                        /\ 2 * j <= Len(bs)
                        /\ j >= lbb}
         IN  IF fits = {} THEN lbb ELSE MinOf(fits)
    ELSE i + 1

\* IsJumpCandidate without the test that keeps out the beat's own segment
IsJumpCandidate_AnySegment(bs, i, nxt, c) ==
    /\ bs[c + 1].cluster = bs[nxt + 1].cluster
    /\ bs[c + 1].is = bs[nxt + 1].is
    /\ c % 4 = bs[nxt + 1].id % 4
    /\ c # nxt

\* IsJumpCandidate without the test that keeps out the next beat
IsJumpCandidate_AllowNext(bs, i, nxt, c) ==
    /\ bs[c + 1].cluster = bs[nxt + 1].cluster
    /\ bs[c + 1].is = bs[nxt + 1].is
    /\ c % 4 = bs[nxt + 1].id % 4
    /\ bs[c + 1].segment # bs[i + 1].segment

\* IsJumpCandidate without the test of the position in the segment
IsJumpCandidate_AnyPosition(bs, i, nxt, c) ==
    /\ bs[c + 1].cluster = bs[nxt + 1].cluster
    /\ c % 4 = bs[nxt + 1].id % 4
    /\ bs[c + 1].segment # bs[i + 1].segment
    /\ c # nxt

\* whether beat c is a jump candidate of beat i whose next is nxt
IsJumpCandidate(bs, i, nxt, c) ==
    /\ bs[c + 1].cluster = bs[nxt + 1].cluster
    /\ bs[c + 1].is = bs[nxt + 1].is
    /\ c % 4 = bs[nxt + 1].id % 4
    /\ bs[c + 1].segment # bs[i + 1].segment
    /\ c # nxt

\* the ids of beats[loop_bounds_begin:] that are jump candidates, in order
RECURSIVE JumpCandidatesFrom(_, _, _, _)
JumpCandidatesFrom(bs, i, nxt, c) ==
    IF c >= Len(bs) THEN << >>
    ELSE IF IsJumpCandidate(bs, i, nxt, c)
         THEN << c >> \o JumpCandidatesFrom(bs, i, nxt, c + 1)
         ELSE JumpCandidatesFrom(bs, i, nxt, c + 1)

JumpCandidates(bs, i, nxt, lbb) == JumpCandidatesFrom(bs, i, nxt, lbb)

\* whether computing the jump graph raises IndexError: the last beat's next
\* is loop_bounds_begin and there is no such beat
NextOutOfRange(bs, lbb) ==
    /\ Len(bs) > 0
    /\ CanonicalNext(bs, Len(bs) - 1, lbb) >= Len(bs)

\* the beats with next and jump_candidates (lines 499-530)
WithJumps(bs, lbb) ==
    [k \in 1..Len(bs) |->
        LET nxt == CanonicalNext(bs, k - 1, lbb)
        IN  [start     |-> bs[k].start,
             cluster   |-> bs[k].cluster,
             segment   |-> bs[k].segment,
             is        |-> bs[k].is,
             id        |-> bs[k].id,
             quartile  |-> bs[k].quartile,
             next      |-> nxt,
             jump_candidates |-> JumpCandidates(bs, k - 1, nxt, lbb)]]

\* LastChance whose scan does not stop at the first hit from the end, and so
\* ends on the earliest beat that has jump candidates
LastChance_First(bs) ==
    LET jumpable == {k \in 1..Len(bs) : Len(bs[k].jump_candidates) > 0}
    IN  IF jumpable = {} THEN Len(bs) - 1
        ELSE IndexOf(bs, bs[MinOf(jumpable)])

\* the latest beat that still has jump candidates, the last beat when no
\* beat has any
LastChance(bs) ==
    LET jumpable == {k \in 1..Len(bs) : Len(bs[k].jump_candidates) > 0}
    IN  IF jumpable = {} THEN Len(bs) - 1
        ELSE IndexOf(bs, bs[MaxOf(jumpable)])

\* beats[last_chance]['next'] = min(beats[last_chance]['jump_candidates'])
ForceLastChance(bs, lc) ==
    [bs EXCEPT ![lc + 1].next = MinOf(Range(bs[lc + 1].jump_candidates))]

\* the outro with start_beat left out of outro_start
Outro_NoOffset(inf, lc, sb) ==
    LET outro_start == lc + 1
    IN  IF outro_start >= Len(inf) THEN << >> ELSE SliceFrom(inf, outro_start)

\* self.outro
Outro(inf, lc, sb) ==
    LET outro_start == lc + 1 + sb
    IN  IF outro_start >= Len(inf) THEN << >> ELSE SliceFrom(inf, outro_start)

-----------------------------------------------------------------------------
(* The walker's helpers *)

\* max_sequence_len: round((tempo / 120) * 48), down to a multiple of 4
MaxSequenceLen(tempo) ==
    LET m == RoundHalfEven(tempo * 48, 120)
    IN  m - (m % 4)

\* recent_depth = max(int(round(segments * .25)), 1)
RecentDepth(segs) ==
    LET d == RoundHalfEven(segs, 4)
    IN  IF d > 1 THEN d ELSE 1

\* a walker that waits a whole song length before it prioritizes a jump
MaxBeatsBetweenJumps_WholeSong(n) == n

\* max_beats_between_jumps = int(round(len(beats) * .1))
MaxBeatsBetweenJumps(n) == RoundHalfEven(n, 10)

\* deque(maxlen=depth).append(x): the oldest entry falls out of a full deque
DequeAppend(dq, x, depth) ==
    IF Len(dq) >= depth THEN Append(Tail(dq), x) ELSE Append(dq, x)

\* a filter that lets every candidate through
NonRecentCandidates_All(bs, cands, rec) == cands

\* [c for c in cands if beats[c]['segment'] not in recent]
NonRecentCandidates(bs, cands, rec) ==
    LET Fresh(c) == bs[c + 1].segment \notin Range(rec)
    IN  SelectSeq(cands, Fresh)

\* [c for c in cands if beats[c]['quartile'] != beat['quartile']]
NonQuartileCandidates(bs, cands, quartile) ==
    LET Far(c) == bs[c + 1].quartile # quartile
    IN  SelectSeq(cands, Far)

\* FurthestCandidate that takes the furthest candidate to lie ahead of the beat
FurthestCandidate_Ahead(cands, id) ==
    id + MaxOf({AbsVal(id - cands[k]) : k \in 1..Len(cands)})

\* the first candidate at the furthest distance from the beat id
FurthestCandidate(cands, id) ==
    LET furthest_distance == MaxOf({AbsVal(id - cands[k]) : k \in 1..Len(cands)})
        at == MinOf({k \in 1..Len(cands) : AbsVal(id - cands[k]) = furthest_distance})
    IN  cands[at]

-----------------------------------------------------------------------------
(* symmetrize_matrix *)

\* the entries of the matrices tried, besides the three matrices below
SymEntries == {-1, 0, 1}

\* the dtype of the array: integers or floats
Dtypes == {"int", "float"}

\* an r x c matrix with the entries of the tuple es, row by row
MatrixOf(r, c, es) == [p \in (1..r) \X (1..c) |-> es[(p[1] - 1) * c + p[2]]]

\* np.array given to the function: its dtype, its shape and its entries
Array(dtype, r, c, a) == [dtype |-> dtype, n_rows |-> r, n_cols |-> c, a |-> a]

\* the matrices of the spec's examples and of the tests
SymExamples ==
    {Array(d, 2, 2, MatrixOf(2, 2, << 1, 2, 3, 4 >>)) : d \in Dtypes}
    \cup {Array(d, 3, 3, MatrixOf(3, 3, << 1, 2, 3, 4, 5, 6, 7, 8, 9 >>)) :
               d \in Dtypes}
    \cup {Array(d, 2, 3, MatrixOf(2, 3, << 1, 2, 3, 4, 5, 6 >>)) : d \in Dtypes}

\* The entries of the result are counted in halves, so that an average of two
\* integers is a number of the model: h stands for h / 2.

\* what an integer array keeps of h / 2: the cast drops the fraction
TruncateToInt(h) == IF h >= 0 THEN 2 * (h \div 2) ELSE -(2 * ((-h) \div 2))

\* Rf_symmetric[i, j] = average_value into an array of Rf's dtype
StoreAs(dtype, h) == IF dtype = "int" THEN TruncateToInt(h) ELSE h

\* (Rf[i, j] + Rf[j, i]) / 2, in halves
AverageValue(Rf, i, j) == Rf.a[<< i, j >>] + Rf.a[<< j, i >>]

\* symmetrize_matrix that fills the upper triangle only
symmetrize_matrix_UpperOnly(Rf) ==
    IF Rf.n_rows # Rf.n_cols
    THEN [outcome |-> "ValueError", a |-> << >>]
    ELSE [outcome |-> "returned",
          a |-> [p \in (1..Rf.n_rows) \X (1..Rf.n_cols) |->
                    IF p[1] <= p[2]
                    THEN StoreAs(Rf.dtype, AverageValue(Rf, p[1], p[2]))
                    ELSE 0]]

\* symmetrize_matrix without the test of the shape, averaging what it finds
symmetrize_matrix_AnyShape(Rf) ==
    [outcome |-> "returned",
     a |-> [p \in (1..Rf.n_rows) \X (1..Rf.n_cols) |->
               IF << p[2], p[1] >> \in DOMAIN Rf.a
               THEN StoreAs(Rf.dtype, AverageValue(Rf, p[1], p[2]))
               ELSE 0]]

\* the function: ValueError for a matrix that is not square; otherwise, for
\* i <= j, both [i, j] and [j, i] of the result get the stored average
symmetrize_matrix(Rf) ==
    IF Rf.n_rows # Rf.n_cols
    THEN [outcome |-> "ValueError", a |-> << >>]
    ELSE [outcome |-> "returned",
          a |-> [p \in (1..Rf.n_rows) \X (1..Rf.n_cols) |->
                    LET i == IF p[1] <= p[2] THEN p[1] ELSE p[2]
                        j == IF p[1] <= p[2] THEN p[2] ELSE p[1]
                    IN  StoreAs(Rf.dtype, AverageValue(Rf, i, j))]]

-----------------------------------------------------------------------------
(* The v2 cluster selector and its segment statistics *)

\* the labels of the lists handed to __segment_stats_from_labels on its own
LabelIds == {0, 1, 2}

\* the loop of lines 889-898 from label i on
RECURSIVE StatsLoop(_, _, _, _, _, _)
StatsLoop(labels, i, previous_label, segment_count, segment_length, segment_lengths) ==
    IF i > Len(labels)
    THEN [segment_count |-> segment_count, segment_lengths |-> segment_lengths]
    ELSE IF labels[i] # previous_label
    THEN StatsLoop(labels, i + 1, labels[i], segment_count + 1, 1,
                   IF segment_length > 0
                   THEN Append(segment_lengths, segment_length)
                   ELSE segment_lengths)
    ELSE StatsLoop(labels, i + 1, previous_label, segment_count,
                   segment_length + 1, segment_lengths)

\* __segment_stats_from_labels: the ratio segment_count / clusters, kept as
\* its two terms, and min(segment_lengths); min of an empty list raises
segment_stats_from_labels(labels) ==
    LET run == StatsLoop(labels, 1, -1, 0, 0, << >>)
    IN  IF Len(labels) = 0 \/ Len(run.segment_lengths) = 0
        THEN [outcome |-> "ValueError", segment_count |-> 0, clusters |-> 0,
              min_segment_len |-> 0]
        ELSE [outcome         |-> "returned",
              segment_count   |-> run.segment_count,
              clusters        |-> MaxOf(Range(labels)) + 1,
              min_segment_len |-> MinOf(Range(run.segment_lengths))]

\* the least cluster count the selector tries: range(48, 2, -1) ends at 3
MinK == 3

\* sklearn.metrics.silhouette_score, in tenths
Silhouettes == {-4, 0, 3, 4}

\* what KMeans.fit_predict may label the beats of a song of six beats; with
\* the last of them, a single label, silhouette_score (line 814) raises
\* ValueError, as min([]) of line 904 would
Labelings ==
    { << 0, 0, 1, 1, 2, 2 >>, << 0, 1, 1, 2, 2, 2 >>,
      << 0, 0, 0, 1, 1, 2 >>, << 0, 1, 0, 1, 2, 2 >>,
      << 0, 0, 0, 0, 0, 0 >> }

\* A score is a fraction num / den with den > 0.

\* cluster_score = n_clusters * silhouette_avg * ratio * orphan_scaler
ClusterScore(n, silhouette_avg, st) ==
    [num |-> n * silhouette_avg * st.segment_count
                 * (IF st.min_segment_len = 1 THEN 4 ELSE 5),
     den |-> 10 * st.clusters * 5]

\* a >= b
ScoreGE(a, b) == a.num * b.den >= b.num * a.den

\* line 854: cluster_score >= best_cluster_score
BetterThanBest(cluster_score, best) == ScoreGE(cluster_score, best)

-----------------------------------------------------------------------------
(* State *)

VARIABLES
    \* the constructor's arguments
    start_beat,            \* self.__start_beat
    do_async,              \* do_async
    starting_beat_cache,   \* self._starting_beat_cache, by kind
    progress_callback,     \* self.__progress_callback: "None" or "fn"
    clustering,            \* clusters and use_v1: "fixed", "v1" or "v2"
    \* the thread of __process_audio and the caller
    pc,                    \* the stage __process_audio runs next
    status,                \* "running", "done" (returned) or "failed" (raised)
    error,                 \* the exception that ended it
    play_ready,            \* "None", or the Event: "clear" or "set"
    caller,                \* what the caller of the constructor does
    \* what the stages compute
    tracker_mode,          \* "unset", "Computed" or "Seeded"
    n_btz,                 \* len(btz), the number of beats
    seg_ids,               \* the cluster label of each beat
    info,                  \* the assembled beats
    fade,                  \* the fade point
    beats,                 \* the local list beats
    segments,              \* self.segments
    last_chance,
    outro,                 \* self.outro
    \* the walker
    max_sequence_len,
    min_sequence,
    current_sequence,
    beat,                  \* the id of the current beat
    recent,                \* the deque of recent segments
    beats_since_jump,
    failed_jumps,
    step,                  \* iterations of the loop done
    branch,                \* the branch the last iteration took
    play_vector,           \* the local list play_vector
    \* the outputs
    published,             \* self.beats and self.play_vector are assigned
    self_beats,
    self_play_vector,
    \* the calls of the progress callback
    progress,              \* the values of pct_done passed so far, in hundredths
    amplitudes,            \* the beats' amplitudes where they are followed,
                           \* << >> where only the fade point is
    \* the downbeat side file and the upload handler of app.py
    cache_write,           \* np.save of the downbeats: "none", "saved", "failed"
    side_file,             \* the file <filename>.npy: "missing" or "valid"
    uploads,               \* the uploads of the file so far, 0 without a handler
    cache_file,            \* the handler's _beats.npy: "missing", "corrupt", "valid"
    cached_beats,          \* the handler's cached_beats, by kind
    handler_pc,            \* where upload_file is, "none" without a handler
    jukebox,               \* the handler's jukebox: "None", "pickled", "built"
    response,              \* the status code returned, 0 before
    \* a call of symmetrize_matrix
    Rf,                    \* the argument
    Rf_symmetric,          \* what the call gave: nothing yet, a matrix, an error
    \* a call of __segment_stats_from_labels
    stats_labels,          \* the argument
    stats,                 \* what the call gave
    \* a call of __compute_best_cluster_with_sil
    sel_pc,                \* "idle", "loop", "returned" or "raised"
    n_clusters,            \* the loop variable
    best_cluster_size,
    best_labels,           \* << >> for None
    best_cluster_score,
    cluster_scores         \* the candidates tested so far, with their scores

argVars    == << start_beat, do_async, starting_beat_cache, progress_callback,
                 clustering >>
threadVars == << pc, status, error, play_ready, caller >>
stageVars  == << tracker_mode, n_btz, seg_ids, info, fade, beats, segments,
                 last_chance, outro >>
walkVars   == << max_sequence_len, min_sequence, current_sequence, beat, recent,
                 beats_since_jump, failed_jumps, step, branch, play_vector >>
outVars    == << published, self_beats, self_play_vector >>

symVars    == << Rf, Rf_symmetric >>
statsVars  == << stats_labels, stats >>
selVars    == << sel_pc, n_clusters, best_cluster_size, best_labels,
                 best_cluster_score, cluster_scores >>
uploadVars == << cache_file, cached_beats, handler_pc, jukebox, response,
                 uploads >>
callVars   == << symVars, statsVars, selVars, amplitudes >>
fnVars     == << callVars, uploadVars, cache_write, side_file >>

vars == << argVars, threadVars, stageVars, walkVars, outVars, progress, fnVars >>

-----------------------------------------------------------------------------
(* The constructor *)

\* what __process_audio has before its first line ran
NothingComputed ==
    /\ progress = << >>
    /\ pc = "load"
    /\ error = "none"
    /\ cache_write = "none"
    /\ side_file = "missing"
    /\ amplitudes = << >>
    /\ tracker_mode = "unset"
    /\ n_btz = 0
    /\ seg_ids = << >>
    /\ info = << >>
    /\ fade = 0
    /\ beats = << >>
    /\ segments = 0
    /\ last_chance = 0
    /\ outro = << >>
    /\ max_sequence_len = 0
    /\ min_sequence = 0
    /\ current_sequence = 0
    /\ beat = 0
    /\ recent = << >>
    /\ beats_since_jump = 0
    /\ failed_jumps = 0
    /\ step = 0
    /\ branch = "none"
    /\ play_vector = << >>
    /\ published = FALSE
    /\ self_beats = << >>
    /\ self_play_vector = << >>

\* the ways the constructor's clusters and use_v1 select the clustering
Clusterings == {"fixed", "v1", "v2"}

\* __init__: the arguments are stored; with do_async the Event is created
\* and the thread started, and the caller goes on to play_ready.wait();
\* otherwise play_ready is None and the caller runs __process_audio itself
Construct(asyncs, caches, callbacks, clusterings) ==
    /\ start_beat \in 0..MaxStartBeat
    /\ do_async \in asyncs
    /\ starting_beat_cache \in caches
    /\ progress_callback \in callbacks
    /\ clustering \in clusterings
    /\ status = "running"
    /\ play_ready = IF do_async THEN "clear" ELSE "None"
    /\ caller = IF do_async THEN "waiting" ELSE "constructing"
    /\ NothingComputed

\* no upload handler around the engine
NoUpload ==
    /\ cache_file = "missing"
    /\ cached_beats = "empty"
    /\ handler_pc = "none"
    /\ jukebox = "None"
    /\ response = 0
    /\ uploads = 0

\* no call of symmetrize_matrix from outside the pipeline
NoSymCall ==
    /\ Rf = Array("float", 0, 0, << >>)
    /\ Rf_symmetric = [outcome |-> "unset", a |-> << >>]

\* no call of __segment_stats_from_labels on its own
NoStatsCall ==
    /\ stats_labels = << >>
    /\ stats = [outcome |-> "unset", segment_count |-> 0, clusters |-> 0,
                min_segment_len |-> 0]

\* lines 788-790: the selector before its loop
SelectorAt(at) ==
    /\ sel_pc = at
    /\ n_clusters = MaxK
    /\ best_cluster_size = 0
    /\ best_labels = << >>
    /\ best_cluster_score = [num |-> 0, den |-> 1]
    /\ cluster_scores = << >>

\* a synchronous run without a callback that computes its downbeats
Init ==
    /\ Construct({FALSE}, {"empty"}, {"None"}, {"v2"})
    /\ NoUpload /\ NoSymCall /\ NoStatsCall /\ SelectorAt("idle")

\* every mode of the constructor
InitModes ==
    /\ Construct(BOOLEAN, CacheKinds, {"None", "fn"}, Clusterings)
    /\ NoUpload /\ NoSymCall /\ NoStatsCall /\ SelectorAt("idle")

\* an engine and a list of labels to call __segment_stats_from_labels with
InitStats ==
    /\ Construct({FALSE}, {"empty"}, {"None"}, {"v2"})
    /\ start_beat = 0
    /\ NoUpload /\ NoSymCall /\ SelectorAt("idle")
    /\ \E n \in 1..MaxLabels : stats_labels \in [1..n -> LabelIds]
    /\ stats = [outcome |-> "unset", segment_count |-> 0, clusters |-> 0,
                min_segment_len |-> 0]

\* an engine whose clustering stage has entered the v2 selector
InitSel ==
    /\ Construct({FALSE}, {"empty"}, {"None"}, {"v2"})
    /\ start_beat = 0
    /\ NoUpload /\ NoSymCall /\ NoStatsCall /\ SelectorAt("loop")

\* an engine and an array to call its symmetrize_matrix with
InitSym ==
    /\ Construct({FALSE}, {"empty"}, {"None"}, {"v2"})
    /\ start_beat = 0
    /\ \/ Rf \in SymExamples
       \/ \E d \in Dtypes, r \in 1..MaxDim, c \in 1..MaxDim :
             \E a \in [(1..r) \X (1..c) -> SymEntries] : Rf = Array(d, r, c, a)
    /\ Rf_symmetric = [outcome |-> "unset", a |-> << >>]
    /\ NoUpload /\ NoStatsCall /\ SelectorAt("idle")

\* a synchronous run that has assembled info (lines 406-464) from labels and
\* amplitudes and is about to truncate it
Assembled(most, levels) ==
    /\ \E n \in 1..most :
          \E labels \in [1..n -> ClusterIds], amps \in [1..n -> levels] :
             /\ n_btz = n
             /\ seg_ids = labels
             /\ info = AssembleInfo(labels)
             /\ amplitudes = amps
    /\ start_beat \in 0..MaxStartBeat
    /\ do_async = FALSE
    /\ starting_beat_cache = "empty"
    /\ progress_callback = "None"
    /\ clustering = "v2"
    /\ status = "running"
    /\ play_ready = "None"
    /\ caller = "constructing"
    /\ progress = << >>
    /\ pc = "truncate"
    /\ error = "none"
    /\ cache_write = "saved"
    /\ side_file = "valid"
    /\ tracker_mode = "Computed"
    /\ fade = 0
    /\ beats = << >>
    /\ segments = 0
    /\ last_chance = 0
    /\ outro = << >>
    /\ max_sequence_len = 0
    /\ min_sequence = 0
    /\ current_sequence = 0
    /\ beat = 0
    /\ recent = << >>
    /\ beats_since_jump = 0
    /\ failed_jumps = 0
    /\ step = 0
    /\ branch = "none"
    /\ play_vector = << >>
    /\ published = FALSE
    /\ self_beats = << >>
    /\ self_play_vector = << >>
    /\ NoUpload /\ NoSymCall /\ NoStatsCall /\ SelectorAt("idle")

\* songs of every amplitude profile, about to be truncated
InitFade == Assembled(FadeBeats, AmpLevels)

\* songs of even amplitude, which keep all their beats up to the last
InitWalk == Assembled(WalkBeats, {1})

-----------------------------------------------------------------------------
(* __process_audio *)

\* an exception leaves __process_audio: in a thread it ends the thread, in
\* the synchronous mode it leaves the constructor
Raise(e) ==
    /\ status' = "failed"
    /\ error' = e
    /\ caller' = IF do_async THEN caller ELSE "raised"
    /\ UNCHANGED << pc, play_ready >>

\* what np.save of the downbeats may do (lines 264-267): an exception is
\* caught and printed as a warning
SaveOutcomes == {"saved", "failed"}

\* what a call of __report_progress may do: nothing without a callback,
\* otherwise the callback returns or raises
ReportOutcomes ==
    IF progress_callback = "None" THEN {"returns"} ELSE {"returns", "raises"}

Running(stage) == status = "running" /\ pc = stage

\* a table of pct_done that reports 1.0 before the walk and .9 at the end
PercentDone_WalkerLast(stage) ==
    CASE stage = "load"        -> 10
      [] stage = "pitch"       -> 20
      [] stage = "track"       -> 30
      [] stage = "recurrence"  -> 40
      [] stage = "cluster"     -> 50
      [] stage = "testing"     -> 51
      [] stage = "amplitudes"  -> 60
      [] stage = "truncate"    -> 70
      [] stage = "final_beats" -> 80
      [] stage = "walker_init" -> 100
      [] stage = "finished"    -> 90

\* the value of pct_done each stage reports, in hundredths; "testing" is the
\* report of the fixed cluster count (line 400) and of each candidate the v2
\* selector tests (line 799)
PercentDone(stage) ==
    CASE stage = "load"        -> 10
      [] stage = "pitch"       -> 20
      [] stage = "track"       -> 30
      [] stage = "recurrence"  -> 40
      [] stage = "cluster"     -> 50
      [] stage = "testing"     -> 51
      [] stage = "amplitudes"  -> 60
      [] stage = "truncate"    -> 70
      [] stage = "final_beats" -> 80
      [] stage = "walker_init" -> 90
      [] stage = "finished"    -> 100

\* __report_progress called with each of the values pcts in turn: the
\* callback, when there is one, is handed them
ReportedAll(pcts) ==
    progress' = IF progress_callback = "None" THEN progress ELSE progress \o pcts

Reported(stage) == ReportedAll(<< PercentDone(stage) >>)

\* how often the clustering stage reports "testing": once for a fixed
\* cluster count, never in v1, once for each candidate in v2
TestingReports ==
    CASE clustering = "fixed" -> 1
      [] clustering = "v1"    -> 0
      [] clustering = "v2"    -> MaxK - MinK + 1

GoTo(stage) ==
    /\ pc' = stage
    /\ UNCHANGED << status, error, play_ready, caller >>

\* lines 214-230: report .1, decode and trim the file
LoadAudio ==
    /\ Running("load")
    /\ Reported("load")
    /\ \E cb \in ReportOutcomes, readable \in BOOLEAN :
          IF cb = "raises" THEN Raise("CallbackError")
          ELSE IF ~readable THEN Raise("DecodeError")
          ELSE GoTo("pitch")
    /\ UNCHANGED << fnVars, argVars, stageVars, walkVars, outVars >>

\* lines 232-240: report .2, the constant-Q chromagram
ComputePitch ==
    /\ Running("pitch")
    /\ Reported("pitch")
    /\ \E cb \in ReportOutcomes :
          IF cb = "raises" THEN Raise("CallbackError") ELSE GoTo("track")
    /\ UNCHANGED << fnVars, argVars, stageVars, walkVars, outVars >>

\* lines 252-292: the downbeats, from the cache or from the tracker.  The
\* cache's size is read before anything is reported; None has no size.  A
\* failure to write the cache file is caught and only printed.  The tracker
\* may find no beat at all; a cache that is taken has a row at least.
TrackUpTo(most) ==
    /\ Running("track")
    /\ IF starting_beat_cache = "None"
       THEN /\ Raise("AttributeError")
            /\ UNCHANGED << tracker_mode, n_btz, progress, cache_write,
                            side_file >>
       ELSE \E cb \in ReportOutcomes, saving \in SaveOutcomes,
               n \in (IF starting_beat_cache = "empty" THEN 0 ELSE 1)..most :
              /\ Reported("track")
              /\ IF cb = "raises"
                 THEN /\ Raise("CallbackError")
                      /\ UNCHANGED << tracker_mode, n_btz, cache_write,
                                      side_file >>
                 ELSE /\ tracker_mode' = IF starting_beat_cache = "empty"
                                         THEN "Computed" ELSE "Seeded"
                      /\ cache_write' = IF starting_beat_cache = "empty"
                                        THEN saving ELSE cache_write
                      /\ side_file' = IF starting_beat_cache = "empty"
                                         /\ saving = "saved"
                                      THEN "valid" ELSE side_file
                      /\ n_btz' = n
                      /\ GoTo("recurrence")
    /\ UNCHANGED << seg_ids, info, fade, beats, segments, last_chance, outro >>
    /\ UNCHANGED << callVars, uploadVars >>
    /\ UNCHANGED << argVars, walkVars, outVars >>

TrackBeats == TrackUpTo(MaxBeats)

TrackBeatsModes == TrackUpTo(ModeBeats)

\* lines 294-378: report .4, the recurrence matrix, its symmetrization, the
\* Laplacian and its eigenvectors; a Laplacian that is not Hermitian raises
BuildLaplacian ==
    /\ Running("recurrence")
    /\ Reported("recurrence")
    /\ \E cb \in ReportOutcomes, is_hermitian \in BOOLEAN :
          IF cb = "raises" THEN Raise("CallbackError")
          ELSE IF ~is_hermitian THEN Raise("ValueError")
          ELSE GoTo("cluster")
    /\ UNCHANGED << fnVars, argVars, stageVars, walkVars, outVars >>

\* lines 383-404: report .5, the reports of the cluster counts tested, the
\* cluster label of every beat; the callback may raise at any of the reports
ClusterBeats ==
    /\ Running("cluster")
    /\ \E cb \in ReportOutcomes, labels \in [1..n_btz -> ClusterIds],
          tested \in 0..TestingReports :
          IF cb = "raises"
          THEN /\ ReportedAll(<< PercentDone("cluster") >>
                              \o [k \in 1..tested |-> PercentDone("testing")])
               /\ Raise("CallbackError") /\ UNCHANGED seg_ids
          ELSE /\ tested = TestingReports
               /\ ReportedAll(<< PercentDone("cluster") >>
                              \o [k \in 1..tested |-> PercentDone("testing")])
               /\ seg_ids' = labels /\ GoTo("amplitudes")
    /\ UNCHANGED << tracker_mode, n_btz, info, fade, beats, segments, last_chance, outro >>
    /\ UNCHANGED << fnVars, argVars, walkVars, outVars >>

\* lines 406-464: report .6 and the list info
AssembleBeats ==
    /\ Running("amplitudes")
    /\ Reported("amplitudes")
    /\ \E cb \in ReportOutcomes :
          IF cb = "raises"
          THEN Raise("CallbackError") /\ UNCHANGED info
          ELSE info' = AssembleInfo(seg_ids) /\ GoTo("truncate")
    /\ UNCHANGED << tracker_mode, n_btz, seg_ids, fade, beats, segments,
                    last_chance, outro >>
    /\ UNCHANGED << fnVars, argVars, walkVars, outVars >>

\* lines 466-487: report .7, the fade point from the amplitudes of the beats
\* (any the amplitudes can give where the model does not follow them),
\* beats = info[start_beat:fade + 1]
TruncateToFade ==
    /\ Running("truncate")
    /\ Reported("truncate")
    /\ \E cb \in ReportOutcomes :
          IF cb = "raises"
          THEN Raise("CallbackError") /\ UNCHANGED << fade, beats >>
          ELSE IF Len(info) = 0
          THEN Raise("ZeroDivisionError") /\ UNCHANGED << fade, beats >>
          ELSE \E f \in IF amplitudes = << >> THEN FadePoints[Len(info)]
                         ELSE {FadePoint(amplitudes)} :
                  /\ fade' = f
                  /\ beats' = TruncateBeats(info, start_beat, f)
                  /\ GoTo("final_beats")
    /\ UNCHANGED << tracker_mode, n_btz, seg_ids, info, segments, last_chance, outro >>
    /\ UNCHANGED << fnVars, argVars, walkVars, outVars >>

\* lines 489-562: report .8, the final ids, next and jump_candidates of every
\* beat, the segment count, last_chance and the outro.  beats[beat['next']]
\* raises IndexError when the last beat's next is no beat, max() of an empty
\* list of segments raises ValueError, and so does min() of an empty list of
\* jump candidates.
ComputeFinalBeats ==
    /\ Running("final_beats")
    /\ Reported("final_beats")
    /\ \E cb \in ReportOutcomes,
          bs2 \in {WithJumps(WithIds(beats), start_beat)} :
          LET bs1 == WithIds(beats)
              lc  == LastChance(bs2)
          IN  IF cb = "raises"
              THEN /\ Raise("CallbackError")
                   /\ UNCHANGED << beats, segments, last_chance, outro >>
              ELSE IF NextOutOfRange(bs1, start_beat)
              THEN /\ Raise("IndexError")
                   /\ beats' = bs1
                   /\ UNCHANGED << segments, last_chance, outro >>
              ELSE IF Len(bs2) = 0
              THEN /\ Raise("ValueError")
                   /\ beats' = bs2
                   /\ UNCHANGED << segments, last_chance, outro >>
              ELSE IF Len(bs2[lc + 1].jump_candidates) = 0
              THEN /\ Raise("ValueError")
                   /\ beats' = bs2
                   /\ segments' = MaxOf({bs2[k].segment : k \in 1..Len(bs2)}) + 1
                   /\ last_chance' = lc
                   /\ UNCHANGED outro
              ELSE /\ beats' = ForceLastChance(bs2, lc)
                   /\ segments' = MaxOf({bs2[k].segment : k \in 1..Len(bs2)}) + 1
                   /\ last_chance' = lc
                   /\ outro' = Outro(info, lc, start_beat)
                   /\ GoTo("walker_init")
    /\ UNCHANGED << tracker_mode, n_btz, seg_ids, info, fade >>
    /\ UNCHANGED << fnVars, argVars, walkVars, outVars >>

\* lines 569-613: the longest sequence for the tempo, the first min_sequence
\* (randrange raises ValueError on an empty range), report .9, the first
\* entry of play_vector and the walker's counters
StartWalker ==
    /\ Running("walker_init")
    /\ \E tempo \in Tempos, cb \in ReportOutcomes :
          LET msl == MaxSequenceLen(tempo)
          IN  IF RandRange(16, msl, 4) = {}
              THEN /\ Raise("ValueError")
                   /\ max_sequence_len' = msl
                   /\ UNCHANGED << min_sequence, play_vector, progress >>
              ELSE \E r \in RandRange(16, msl, 4) :
                     /\ Reported("walker_init")
                     /\ max_sequence_len' = msl
                     /\ min_sequence' = IF r > start_beat THEN r ELSE start_beat
                     /\ IF cb = "raises"
                        THEN Raise("CallbackError") /\ UNCHANGED play_vector
                        ELSE /\ play_vector' = << [beat    |-> 0,
                                                   seq_len |-> min_sequence',
                                                   seq_pos |-> 0] >>
                             /\ GoTo("walk")
    /\ current_sequence' = 0
    /\ beat' = 0
    /\ UNCHANGED << recent, beats_since_jump, failed_jumps, step, branch >>
    /\ UNCHANGED << fnVars, argVars, stageVars, outVars >>

\* the walker lands on the beat with id `to`
Land(to, since, failed, taken) ==
    /\ beat' = to
    /\ beats_since_jump' = since
    /\ failed_jumps' = failed
    /\ branch' = taken

\* lines 615-715: one iteration of the walker's loop
WalkStep ==
    /\ Running("walk")
    /\ UNCHANGED progress
    /\ step < WalkSteps
    /\ LET n    == Len(beats)
           b    == beats[beat + 1]
           rec1 == IF b.segment \in Range(recent) THEN recent
                   ELSE DequeAppend(recent, b.segment, RecentDepth(segments))
           cs1  == current_sequence + 1
           will_jump == \/ cs1 = min_sequence
                        \/ beats_since_jump >= MaxBeatsBetweenJumps(n)
           non_recent_candidates ==
               NonRecentCandidates(beats, b.jump_candidates, rec1)
           non_quartile_candidates ==
               NonQuartileCandidates(beats, b.jump_candidates, b.quartile)
       IN  /\ recent' = rec1
           /\ IF will_jump
              THEN \E ms \in RandRange(16, max_sequence_len, 4) :
                     /\ IF Len(non_recent_candidates) = 0
                        THEN IF /\ 10 * (failed_jumps + 1) >= n
                                /\ Len(non_quartile_candidates) > 0
                             THEN Land(FurthestCandidate(non_quartile_candidates, b.id),
                                       0, 0, "furthest")
                             ELSE IF 5 * (failed_jumps + 1) >= n
                             THEN Land(start_beat, 0, 0, "restart")
                             ELSE Land(b.next, beats_since_jump + 1,
                                       failed_jumps + 1, "fallthrough")
                        ELSE \E c \in Range(non_recent_candidates) :
                               Land(c, 0, 0, "random")
                     /\ min_sequence' = ms
                     /\ current_sequence' =
                            IF beats_since_jump' >= MaxBeatsBetweenJumps(n)
                            THEN ms ELSE 0
                     /\ play_vector' = Append(play_vector,
                                              [beat    |-> beat',
                                               seq_len |-> ms,
                                               seq_pos |-> current_sequence'])
              ELSE /\ Land(b.next, beats_since_jump + 1, failed_jumps, "sequential")
                   /\ current_sequence' = cs1
                   /\ play_vector' = Append(play_vector,
                                            [beat    |-> b.next,
                                             seq_len |-> min_sequence,
                                             seq_pos |-> cs1])
                   /\ UNCHANGED min_sequence
    /\ step' = step + 1
    /\ GoTo(IF step + 1 = WalkSteps THEN "publish" ELSE "walk")
    /\ UNCHANGED max_sequence_len
    /\ UNCHANGED << fnVars, argVars, stageVars, outVars >>

\* PublishOutputs with the Event set where the outputs should be assigned
PublishOutputs_SignalFirst ==
    /\ Running("publish")
    /\ UNCHANGED progress
    /\ play_ready' = IF play_ready = "None" THEN "None" ELSE "set"
    /\ pc' = "finished"
    /\ UNCHANGED << status, error, caller >>
    /\ UNCHANGED << fnVars, argVars, stageVars, walkVars, outVars >>

\* lines 720-721: self.beats = beats; self.play_vector = play_vector
PublishOutputs ==
    /\ Running("publish")
    /\ UNCHANGED progress
    /\ self_beats' = beats
    /\ self_play_vector' = play_vector
    /\ published' = TRUE
    /\ GoTo("finished")
    /\ UNCHANGED << fnVars, argVars, stageVars, walkVars >>

\* line 723: report 1.0
ReportFinished ==
    /\ Running("finished")
    /\ Reported("finished")
    /\ \E cb \in ReportOutcomes :
          IF cb = "raises" THEN Raise("CallbackError") ELSE GoTo("signal")
    /\ UNCHANGED << fnVars, argVars, stageVars, walkVars, outVars >>

\* lines 725-726: set the Event when there is one; __process_audio returns
SignalReady ==
    /\ Running("signal")
    /\ UNCHANGED progress
    /\ play_ready' = IF play_ready = "None" THEN "None" ELSE "set"
    /\ status' = "done"
    /\ caller' = IF do_async THEN caller ELSE "returned"
    /\ UNCHANGED << pc, error >>
    /\ UNCHANGED << fnVars, argVars, stageVars, walkVars, outVars >>

\* the caller's play_ready.wait() returns once the Event is set
CallerWakes ==
    /\ caller = "waiting"
    /\ play_ready = "set"
    /\ UNCHANGED progress
    /\ caller' = "released"
    /\ UNCHANGED << pc, status, error, play_ready >>
    /\ UNCHANGED << fnVars, argVars, stageVars, walkVars, outVars >>

\* what follows the downbeats
AfterTrack ==
    \/ BuildLaplacian
    \/ ClusterBeats
    \/ AssembleBeats
    \/ TruncateToFade
    \/ ComputeFinalBeats
    \/ StartWalker
    \/ WalkStep
    \/ PublishOutputs
    \/ ReportFinished
    \/ SignalReady

Next ==
    \/ LoadAudio
    \/ ComputePitch
    \/ TrackBeats
    \/ AfterTrack

NextModes ==
    \/ LoadAudio
    \/ ComputePitch
    \/ TrackBeatsModes
    \/ AfterTrack
    \/ CallerWakes

\* lines 168-198: the call symmetrize_matrix(Rf)
CallSymmetrize ==
    /\ Rf_symmetric.outcome = "unset"
    /\ Rf_symmetric' = symmetrize_matrix(Rf)
    /\ UNCHANGED << Rf, statsVars, selVars, progress, uploadVars, cache_write >>
    /\ UNCHANGED << amplitudes, side_file >>
    /\ UNCHANGED << argVars, threadVars, stageVars, walkVars, outVars >>

NextSym == CallSymmetrize

\* lines 878-904: the call __segment_stats_from_labels(labels)
CallSegmentStats ==
    /\ stats.outcome = "unset"
    /\ stats' = segment_stats_from_labels(stats_labels)
    /\ UNCHANGED << stats_labels, symVars, selVars, progress, uploadVars,
                    cache_write, amplitudes, side_file >>
    /\ UNCHANGED << argVars, threadVars, stageVars, walkVars, outVars >>

NextStats == CallSegmentStats

\* lines 797-857: one iteration of the selector's loop, and after the last
\* one the return of line 860
TestClusterValue ==
    /\ sel_pc = "loop"
    /\ Reported("testing")
    /\ \E cluster_labels \in Labelings, silhouette_avg \in Silhouettes :
          LET st == segment_stats_from_labels(cluster_labels)
              cluster_score == ClusterScore(n_clusters, silhouette_avg, st)
              better == BetterThanBest(cluster_score, best_cluster_score)
          IN  IF st.outcome = "ValueError"
              THEN /\ sel_pc' = "raised"
                   /\ UNCHANGED << n_clusters, best_cluster_size, best_labels,
                                   best_cluster_score, cluster_scores >>
              ELSE /\ best_cluster_score' =
                          IF better THEN cluster_score ELSE best_cluster_score
                   /\ best_cluster_size' =
                          IF better THEN n_clusters ELSE best_cluster_size
                   /\ best_labels' =
                          IF better THEN cluster_labels ELSE best_labels
                   /\ cluster_scores' =
                          Append(cluster_scores,
                                 [n_clusters    |-> n_clusters,
                                  labels        |-> cluster_labels,
                                  cluster_score |-> cluster_score])
                   /\ n_clusters' = n_clusters - 1
                   /\ sel_pc' = IF n_clusters = MinK THEN "returned" ELSE "loop"
    /\ UNCHANGED << symVars, statsVars, uploadVars, cache_write, amplitudes,
                    side_file >>
    /\ UNCHANGED << argVars, threadVars, stageVars, walkVars, outVars >>

NextSel == TestClusterValue

-----------------------------------------------------------------------------
(* upload_file of app.py, from the beat cache on *)

\* what the handler may find at a path it reads
FileStates == {"missing", "corrupt", "valid"}

engineVars == << argVars, threadVars, stageVars, walkVars, outVars, progress,
                 cache_write, side_file >>

\* the handler at line 104: the file is saved, no engine is built yet; the
\* call of line 136 passes the callback and leaves start_beat, clusters and
\* use_v1 at their defaults
InitUpload ==
    /\ start_beat = 1
    /\ do_async = FALSE
    /\ starting_beat_cache = "unset"
    /\ progress_callback = "fn"
    /\ clustering = "v2"
    /\ status = "unbuilt"
    /\ play_ready = "None"
    /\ caller = "handler"
    /\ NothingComputed
    /\ cache_file \in FileStates
    /\ cached_beats = "unset"
    /\ handler_pc = "load_cache"
    /\ jukebox = "None"
    /\ response = 0
    /\ uploads = 1
    /\ NoSymCall /\ NoStatsCall /\ SelectorAt("idle")

\* a handler that answers 500 when np.load raises on a corrupt file
LoadBeatCache_AbortOnCorrupt ==
    /\ handler_pc = "load_cache"
    /\ cached_beats' = IF cache_file = "valid" THEN "array" ELSE "empty"
    /\ handler_pc' = IF cache_file = "corrupt" THEN "done" ELSE "load_pickle"
    /\ response' = IF cache_file = "corrupt" THEN 500 ELSE response
    /\ UNCHANGED << cache_file, jukebox, uploads >>
    /\ UNCHANGED << engineVars, callVars >>

\* app.py lines 104-114: cached_beats starts as the empty array; np.load
\* replaces it, and FileNotFoundError or any other exception is printed
LoadBeatCache ==
    /\ handler_pc = "load_cache"
    /\ cached_beats' = IF cache_file = "valid" THEN "array" ELSE "empty"
    /\ handler_pc' = "load_pickle"
    /\ UNCHANGED << cache_file, jukebox, response, uploads >>
    /\ UNCHANGED << engineVars, callVars >>

\* app.py lines 118-131: the pickled jukebox, if it loads, is used instead
\* of a new one
LoadPickle ==
    /\ handler_pc = "load_pickle"
    /\ \E pickled \in FileStates :
          /\ jukebox' = IF pickled = "valid" THEN "pickled" ELSE "None"
          /\ handler_pc' = IF pickled = "valid" THEN "respond" ELSE "construct"
    /\ UNCHANGED << cache_file, cached_beats, response, uploads >>
    /\ UNCHANGED << engineVars, callVars >>

\* app.py lines 136-141: the constructor is called with cached_beats and
\* runs __process_audio itself
ConstructJukebox ==
    /\ handler_pc = "construct"
    /\ starting_beat_cache' = cached_beats
    /\ status' = "running"
    /\ caller' = "constructing"
    /\ handler_pc' = "respond"
    /\ UNCHANGED << start_beat, do_async, progress_callback, clustering >>
    /\ UNCHANGED << pc, error, play_ready >>
    /\ UNCHANGED << stageVars, walkVars, outVars, progress, cache_write,
                    side_file >>
    /\ UNCHANGED << cache_file, cached_beats, jukebox, response, uploads >>
    /\ UNCHANGED callVars

\* app.py lines 143-230: an exception of the constructor answers 500, no
\* beats 400; what follows answers 200 unless it raises
Respond ==
    /\ handler_pc = "respond"
    /\ \/ /\ jukebox = "pickled"
          /\ response' \in {200, 500}
          /\ UNCHANGED jukebox
       \/ /\ caller = "raised"
          /\ response' = 500
          /\ UNCHANGED jukebox
       \/ /\ caller = "returned"
          /\ jukebox' = "built"
          /\ response' \in IF Len(self_beats) = 0 THEN {400} ELSE {200, 500}
    /\ handler_pc' = "done"
    /\ UNCHANGED << cache_file, cached_beats, uploads >>
    /\ UNCHANGED << engineVars, callVars >>

\* the same file is uploaded again: it gets the same song_id and file_path
\* (lines 78-83), the files beside it are as the upload before left them,
\* and the handler starts over at line 104
UploadAgain ==
    /\ handler_pc = "done"
    /\ uploads < MaxUploads
    /\ uploads' = uploads + 1
    /\ handler_pc' = "load_cache"
    /\ cached_beats' = "unset"
    /\ jukebox' = "None"
    /\ response' = 0
    /\ starting_beat_cache' = "unset"
    /\ status' = "unbuilt"
    /\ caller' = "handler"
    /\ progress' = << >>
    /\ pc' = "load"
    /\ error' = "none"
    /\ cache_write' = "none"
    /\ tracker_mode' = "unset"
    /\ n_btz' = 0
    /\ seg_ids' = << >>
    /\ info' = << >>
    /\ fade' = 0
    /\ beats' = << >>
    /\ segments' = 0
    /\ last_chance' = 0
    /\ outro' = << >>
    /\ max_sequence_len' = 0
    /\ min_sequence' = 0
    /\ current_sequence' = 0
    /\ beat' = 0
    /\ recent' = << >>
    /\ beats_since_jump' = 0
    /\ failed_jumps' = 0
    /\ step' = 0
    /\ branch' = "none"
    /\ play_vector' = << >>
    /\ published' = FALSE
    /\ self_beats' = << >>
    /\ self_play_vector' = << >>
    /\ UNCHANGED << cache_file, side_file, play_ready >>
    /\ UNCHANGED << start_beat, do_async, progress_callback, clustering >>
    /\ UNCHANGED callVars

NextUpload ==
    \/ LoadBeatCache
    \/ LoadPickle
    \/ ConstructJukebox
    \/ LoadAudio
    \/ ComputePitch
    \/ TrackBeats
    \/ AfterTrack
    \/ Respond

\* one synchronous run over every song within the bounds
Spec == Init /\ [][Next]_vars

\* every mode of the constructor over the shorter songs
SpecModes == InitModes /\ [][NextModes]_vars

\* calls of symmetrize_matrix
SpecSym == InitSym /\ [][NextSym]_vars

\* calls of __segment_stats_from_labels
SpecStats == InitStats /\ [][NextStats]_vars

\* runs of the v2 cluster selector
SpecSel == InitSel /\ [][NextSel]_vars

\* the truncation to the fade point and the final ids
NextFade ==
    \/ TruncateToFade
    \/ ComputeFinalBeats

SpecFade == InitFade /\ [][NextFade]_vars

\* the jump graph and the walk of a song of even amplitude
NextWalk ==
    \/ TruncateToFade
    \/ ComputeFinalBeats
    \/ StartWalker
    \/ WalkStep
    \/ PublishOutputs
    \/ ReportFinished
    \/ SignalReady

SpecWalk == InitWalk /\ [][NextWalk]_vars

\* uploads handled by upload_file
SpecUpload == InitUpload /\ [][NextUpload]_vars

TrackBeatsUploaded == TrackUpTo(UploadBeats)

NextReupload ==
    \/ LoadBeatCache
    \/ LoadPickle
    \/ ConstructJukebox
    \/ LoadAudio
    \/ ComputePitch
    \/ TrackBeatsUploaded
    \/ AfterTrack
    \/ Respond
    \/ UploadAgain

\* uploads of one file, one after the other
SpecReupload == InitUpload /\ [][NextReupload]_vars

-----------------------------------------------------------------------------
(* The claims *)

\* the ids of a list of n beats
Ids(bs) == 0..(Len(bs) - 1)

\* the jump candidates of the beat with id i, as a set
Candidates(bs, i) == Range(bs[i + 1].jump_candidates)

\* C1: whenever the engine completes, play_vector has exactly as many
\* entries as the walker's loop has iterations (2^20 in the code), the first
\* entry for beat 0 counted.  The code appends that first entry and then one
\* entry per iteration.
C1_LengthIsIterations ==
    status = "done" => Len(self_play_vector) = WalkSteps

\* C2: every entry of play_vector names a beat of the beats list, at every
\* point of the walk and in the published outputs, whichever branch of the
\* walker produced the entry.
C2_PlayVectorBeatsValid ==
    /\ pc \in {"walk", "publish", "finished", "signal"} =>
           \A t \in 1..Len(play_vector) : play_vector[t].beat \in Ids(beats)
    /\ published =>
           \A t \in 1..Len(self_play_vector) :
               self_play_vector[t].beat \in Ids(self_beats)

\* a completed run whose last iteration jumped to the furthest candidate of
\* another quartile
C2_Witness ==
    /\ status = "done"
    /\ branch = "furthest"
    /\ Len(self_play_vector) = WalkSteps + 1

\* C3: in the final beats list no beat is its own jump candidate and no
\* jump candidate of a beat lies in that beat's segment.
C3_NoSelfNoSameSegment ==
    published =>
        \A i \in Ids(self_beats) :
            /\ i \notin Candidates(self_beats, i)
            /\ \A c \in Candidates(self_beats, i) :
                   self_beats[c + 1].segment # self_beats[i + 1].segment

\* a final list in which a beat of the last beat's own segment resembles the
\* last beat's next in every other respect, and is kept out by its segment
C3_Witness ==
    /\ published
    /\ LET l   == Len(self_beats) - 1
           nxt == self_beats[l + 1].next
       IN  \E c \in Ids(self_beats) \ {l, nxt} :
               /\ self_beats[c + 1].segment = self_beats[l + 1].segment
               /\ self_beats[c + 1].cluster = self_beats[nxt + 1].cluster
               /\ self_beats[c + 1].is = self_beats[nxt + 1].is
               /\ c % 4 = nxt % 4
               /\ c \notin Candidates(self_beats, l)

\* C4 as claimed: in the final beats list no beat's next is one of its jump
\* candidates.
C4_NextNeverCandidate ==
    published =>
        \A i \in Ids(self_beats) :
            self_beats[i + 1].next \notin Candidates(self_beats, i)

\* C4 amended: in the final beats list the next of every beat other than
\* the beat last_chance is none of that beat's jump candidates.
C4_NextNotCandidateButLastChance ==
    published =>
        \A i \in Ids(self_beats) \ {last_chance} :
            self_beats[i + 1].next \notin Candidates(self_beats, i)

\* a final list in which a beat other than last_chance has jump candidates
C4_Witness ==
    /\ published
    /\ \E i \in Ids(self_beats) \ {last_chance} : Candidates(self_beats, i) # {}

\* C5 as claimed: in the final beats list the next of every beat but the
\* last lies in the segment of the beat that follows it.
C5_NextInFollowingSegment ==
    published =>
        \A i \in Ids(self_beats) \ {Len(self_beats) - 1} :
            self_beats[self_beats[i + 1].next + 1].segment
                = self_beats[i + 2].segment

\* C5 amended: the same for every beat but the last and the beat
\* last_chance.
C5_NextInFollowingSegmentButLastChance ==
    published =>
        \A i \in Ids(self_beats) \ {Len(self_beats) - 1, last_chance} :
            self_beats[self_beats[i + 1].next + 1].segment
                = self_beats[i + 2].segment

\* a final list whose last_chance is not the last beat and is preceded by a
\* change of segment
C5_Witness ==
    /\ published
    /\ last_chance < Len(self_beats) - 1
    /\ \E i \in Ids(self_beats) \ {Len(self_beats) - 1, last_chance} :
           self_beats[i + 2].segment # self_beats[i + 1].segment

\* C6: when a beat has jump candidates, last_chance is the largest id of
\* such a beat, and in the final beats list its next is the least of its jump
\* candidates.
C6_LastChanceForced ==
    published =>
        LET jumpable == {i \in Ids(self_beats) : Candidates(self_beats, i) # {}}
        IN  jumpable # {} =>
                /\ last_chance \in jumpable
                /\ \A i \in jumpable : i <= last_chance
                /\ self_beats[last_chance + 1].next
                       \in Candidates(self_beats, last_chance)
                /\ \A c \in Candidates(self_beats, last_chance) :
                       self_beats[last_chance + 1].next <= c

\* a final list with several beats that have jump candidates, the latest of
\* them with several candidates
C6_Witness ==
    /\ published
    /\ Cardinality(Candidates(self_beats, last_chance)) >= 2
    /\ \E i \in Ids(self_beats) : i < last_chance /\ Candidates(self_beats, i) # {}

\* C7: in the asynchronous mode play_ready is set whenever the thread of
\* __process_audio has ended, by returning or by raising.
C7_ReadyOnEveryTermination ==
    (do_async /\ status \in {"done", "failed"}) => play_ready = "set"

\* C8: whenever play_ready is set, self.beats and self.play_vector hold the
\* final lists and __process_audio has nothing left to do.
C8_ReadyImpliesPublished ==
    play_ready = "set" =>
        /\ published
        /\ status = "done"
        /\ self_beats = beats
        /\ self_play_vector = play_vector
        /\ Len(self_play_vector) = WalkSteps + 1

\* the caller's wait has returned
C8_Witness ==
    /\ do_async
    /\ caller = "released"
    /\ play_ready = "set"

\* C9: with the default starting_beat_cache (None) the engine takes the
\* Computed mode: it does not fail where the cache is looked at, and past
\* that point the downbeat tracker has run.
C9_DefaultCacheIsComputed ==
    starting_beat_cache = "None" =>
        /\ ~(pc = "track" /\ status = "failed" /\ error = "AttributeError")
        /\ pc \notin {"load", "pitch", "track"} => tracker_mode = "Computed"

\* C10: when no beat has a jump candidate the engine does not fail on it.
C10_NoCandidatesNoFailure ==
    ~ /\ pc = "final_beats"
      /\ status = "failed"
      /\ error = "ValueError"
      /\ Len(beats) > 0
      /\ \A i \in Ids(beats) : Candidates(beats, i) = {}

\* the sides of a square result
Side == 1..Rf.n_rows

\* C11: the matrix symmetrize_matrix returns for a square matrix is
\* symmetric.
C11_OutputSymmetric ==
    Rf_symmetric.outcome = "returned" =>
        \A i \in Side, j \in Side :
            Rf_symmetric.a[<< i, j >>] = Rf_symmetric.a[<< j, i >>]

\* a 3 x 3 matrix that is not symmetric has been symmetrized
C11_Witness ==
    /\ Rf_symmetric.outcome = "returned"
    /\ Rf.n_rows = 3
    /\ \E i \in Side, j \in Side : Rf.a[<< i, j >>] # Rf.a[<< j, i >>]

\* C12: for a square matrix of integers or of floats every entry [i, j] of
\* the result is exactly (M[i][j] + M[j][i]) / 2.
C12_ExactAverage ==
    Rf_symmetric.outcome = "returned" =>
        \A i \in Side, j \in Side :
            Rf_symmetric.a[<< i, j >>] = Rf.a[<< i, j >>] + Rf.a[<< j, i >>]

\* C13: for a matrix that is not square symmetrize_matrix raises ValueError
\* and returns no matrix.
C13_NonSquareRaises ==
    (Rf_symmetric.outcome # "unset" /\ Rf.n_rows # Rf.n_cols) =>
        /\ Rf_symmetric.outcome = "ValueError"
        /\ Rf_symmetric.a = << >>

\* the call on a 2 x 3 matrix has ended
C13_Witness ==
    /\ Rf.n_rows = 2
    /\ Rf.n_cols = 3
    /\ Rf_symmetric.outcome = "ValueError"

\* along bs the segment goes up by one where the cluster changes and stays
\* where it does not
SegmentsFollowClusters(bs) ==
    \A k \in 1..(Len(bs) - 1) :
        bs[k + 1].segment =
            IF bs[k + 1].cluster # bs[k].cluster
            THEN bs[k].segment + 1 ELSE bs[k].segment

\* C14: along the assembled list and along the final truncated list the
\* segment never decreases, and between consecutive beats it increases, by
\* exactly 1, if and only if their clusters differ.
C14_SegmentsFollowClusters ==
    /\ SegmentsFollowClusters(info)
    /\ SegmentsFollowClusters(beats)
    /\ SegmentsFollowClusters(self_beats)
    /\ \A k \in 1..Len(info), l \in 1..Len(info) :
           k <= l => info[k].segment <= info[l].segment

\* a published list, truncated at both ends, with a change of cluster and a
\* pair of beats without one
C14_Witness ==
    /\ published
    /\ start_beat > 0
    /\ fade < Len(info) - 1
    /\ \E k \in 1..(Len(self_beats) - 1) :
           self_beats[k + 1].cluster # self_beats[k].cluster
    /\ \E k \in 1..(Len(self_beats) - 1) :
           self_beats[k + 1].cluster = self_beats[k].cluster

\* the start times of a list of beats, which tell the beats apart
Starts(bs) == [k \in 1..Len(bs) |-> bs[k].start]

\* the final beat array, last_chance and the outro have been computed
GraphDone == pc \in {"walker_init", "walk", "publish", "finished", "signal"}

\* C15 as claimed: the outro is the beats of the final list after
\* last_chance, in order, and is empty when last_chance is the last of them.
C15_OutroIsFinalBeatsAfterLastChance ==
    GraphDone =>
        Starts(outro) = Starts(SubSeq(beats, last_chance + 2, Len(beats)))

\* C15 amended: the outro is the beats of the final list after last_chance
\* followed by the beats of the song past the fade point, in order.
C15_OutroRunsToEndOfSong ==
    GraphDone =>
        Starts(outro) = Starts(SubSeq(beats, last_chance + 2, Len(beats))
                               \o SubSeq(info, fade + 2, Len(info)))

\* a song with a skipped first beat, beats after last_chance in the final
\* list and beats past the fade point
C15_Witness ==
    /\ GraphDone
    /\ start_beat > 0
    /\ last_chance < Len(beats) - 1
    /\ fade < Len(info) - 1

\* C16: when no beat is found the run ends in EmptyBeatsError and nothing
\* is published.
C16_EmptyBeatsError ==
    (tracker_mode # "unset" /\ n_btz = 0 /\ status # "running") =>
        /\ status = "failed"
        /\ error = "EmptyBeatsError"
        /\ ~published

\* the lengths of the maximal runs of equal consecutive labels of ls
RunLengths(ls) ==
    {j - i + 1 : << i, j >> \in
        {p \in (1..Len(ls)) \X (1..Len(ls)) :
            /\ p[1] <= p[2]
            /\ \A k \in p[1]..p[2] : ls[k] = ls[p[1]]
            /\ p[1] > 1 => ls[p[1] - 1] # ls[p[1]]
            /\ p[2] < Len(ls) => ls[p[2] + 1] # ls[p[2]]}}

\* the candidates of the greatest score among those tested
TopCandidates ==
    {k \in 1..Len(cluster_scores) :
        \A l \in 1..Len(cluster_scores) :
            ScoreGE(cluster_scores[k].cluster_score,
                    cluster_scores[l].cluster_score)}

\* C19: the selector returns the candidate of the greatest fitness, the
\* one of the highest k among those of the greatest fitness, with its labels.
C19_HighestKOfMaxFitness ==
    sel_pc = "returned" =>
        \E k \in TopCandidates :
            /\ \A l \in TopCandidates :
                   cluster_scores[l].n_clusters <= cluster_scores[k].n_clusters
            /\ best_cluster_size = cluster_scores[k].n_clusters
            /\ best_labels = cluster_scores[k].labels

\* C20: the min_seg the segment statistics give is the length of the
\* shortest maximal run of equal labels of the whole list, the first and the
\* last run included.
C20_MinSegIsShortestRun ==
    stats.outcome # "unset" =>
        /\ stats.outcome = "returned"
        /\ stats.min_segment_len = MinOf(RunLengths(stats_labels))

\* C18: the values handed to the progress callback never decrease, lie
\* between 0 and 1, and 1.0 is handed over only in the last call, after
\* beats and play_vector have been assigned.
C18_ProgressMonotonic ==
    /\ \A i \in 1..Len(progress) :
           /\ progress[i] \in 0..100
           /\ \A j \in i..Len(progress) : progress[i] <= progress[j]
    /\ \A i \in 1..Len(progress) :
           progress[i] = 100 => i = Len(progress) /\ published

\* a completed run of each way of clustering has reported to the callback,
\* the v2 selector once for each of its candidates
C18_Witness ==
    /\ status = "done"
    /\ clustering = "v2"
    /\ starting_beat_cache = "array"
    /\ Len(progress) = 10 + TestingReports
    /\ progress[Len(progress)] = 100

\* C17: a failure to write the downbeat side file in the engine, or to read
\* it in the upload handler (missing or corrupt), never aborts processing:
\* the run goes on with downbeats it computes, as if no cache existed.
C17_CacheFailuresAreWarnings ==
    /\ cache_write = "failed" => tracker_mode = "Computed" /\ pc # "track"
    /\ cache_file # "valid" /\ handler_pc # "load_cache" =>
           cached_beats = "empty"
    /\ cache_file # "valid" /\ handler_pc = "done" =>
           jukebox = "pickled" \/ status # "unbuilt"
    /\ cache_file # "valid" /\ status # "unbuilt" =>
           /\ starting_beat_cache = "empty"
           /\ tracker_mode \in {"unset", "Computed"}

\* an upload whose cache file is corrupt and whose side file cannot be
\* written is processed to the end and answered with 200
C17_Witness ==
    /\ cache_file = "corrupt"
    /\ cache_write = "failed"
    /\ tracker_mode = "Computed"
    /\ handler_pc = "done"
    /\ jukebox = "built"
    /\ response = 200

\* the wrap-around target of the last beat of bs: the lowest id of its
\* cluster in the first half of the list, in the measure position after the
\* last beat's and not below sb; sb when there is none
WrapFits(bs, sb) ==
    LET l == Len(bs) - 1
    IN  {j \in Ids(bs) : /\ bs[j + 1].cluster = bs[l + 1].cluster
                         /\ j % 4 = (l + 1) % 4
                         /\ 2 * j <= Len(bs)
                         /\ j >= sb}

WrapTarget(bs, sb) ==
    IF WrapFits(bs, sb) = {} THEN sb ELSE MinOf(WrapFits(bs, sb))

\* the canonical next of the beat with id i
CanonicalOf(bs, i, sb) == IF i = Len(bs) - 1 THEN WrapTarget(bs, sb) ELSE i + 1

\* the ids that qualify as jump candidates of beat i, n its canonical next
Qualifying(bs, i, sb) ==
    LET n == CanonicalOf(bs, i, sb)
    IN  {c \in Ids(bs) : /\ c >= sb
                         /\ bs[c + 1].cluster = bs[n + 1].cluster
                         /\ bs[c + 1].is = bs[n + 1].is
                         /\ c % 4 = n % 4
                         /\ bs[c + 1].segment # bs[i + 1].segment
                         /\ c # n}

NothingToForce ==
    /\ status = "failed" /\ pc = "final_beats" /\ error = "ValueError"
    /\ Len(beats) > 0

\* C22: the canonical next of the last beat is the lowest id of its cluster
\* with id % 4 = (i + 1) % 4, id <= n / 2 and id >= start_beat, start_beat
\* when there is none; the canonical next of every other beat is id + 1.
\* The next of the beat last_chance is replaced afterwards (line 551), so
\* the canonical value is read off every other beat, and off every beat
\* where nothing was replaced.
C22_CanonicalNext ==
    /\ GraphDone =>
           \A i \in Ids(beats) \ {last_chance} :
               beats[i + 1].next = CanonicalOf(beats, i, start_beat)
    /\ NothingToForce =>
           \A i \in Ids(beats) :
               beats[i + 1].next = CanonicalOf(beats, i, start_beat)

\* a final list whose last beat is not last_chance and has two beats to
\* wrap around to
C22_Witness ==
    /\ GraphDone
    /\ last_chance # Len(beats) - 1
    /\ Cardinality(WrapFits(beats, start_beat)) >= 2

\* the indices (0-based) of the assembled beats whose amplitude is at least
\* 0.75 times the mean amplitude
LoudBeats ==
    {i \in 0..(Len(info) - 1) :
        4 * amplitudes[i + 1] * Len(info)
            >= 3 * SumAmplitude(amplitudes, Len(amplitudes))}

\* the final ids have been assigned (line 493)
IdsAssigned ==
    \/ pc = "walker_init"
    \/ pc = "final_beats" /\ status = "failed"

C24_NeverPastLastChance ==
    pc \in {"walk", "publish", "finished", "signal"} =>
        \A t \in 1..Len(play_vector) : play_vector[t].beat <= last_chance

\* the walker's loop runs one iteration
Walks == Running("walk") /\ step' = step + 1

\* will_jump of the iteration that starts in this state
WillJump ==
    \/ current_sequence + 1 = min_sequence
    \/ beats_since_jump >= RoundHalfEven(Len(beats), 10)

\* the jump candidates of the current beat whose segment is not in the
\* recent FIFO, the current beat's segment put into it
NonRecent ==
    {c \in Candidates(beats, beat) : beats[c + 1].segment \notin Range(recent')}

\* C25: at every walker step where will_jump holds and the current beat has
\* a jump candidate whose segment is not in recent, the beat emitted is one
\* of those candidates, its segment differs from the current beat's and from
\* every segment in recent, and beats_since_jump and failed_jumps are 0.
C25_JumpsToNonRecent ==
    [][Walks /\ WillJump /\ NonRecent # {} =>
          /\ beat' \in NonRecent
          /\ play_vector'[Len(play_vector')].beat = beat'
          /\ beats[beat' + 1].segment # beats[beat + 1].segment
          /\ beats[beat' + 1].segment \notin Range(recent')
          /\ beats_since_jump' = 0
          /\ failed_jumps' = 0]_vars

\* a jump to a non-recent candidate from a beat that also had a candidate in
\* a recently played segment
C25_Witness ==
    /\ pc \in {"walk", "publish"}
    /\ branch = "random"
    /\ LET from == play_vector[Len(play_vector) - 1].beat
       IN  \E c \in Candidates(beats, from) :
               beats[c + 1].segment \in Range(recent)

\* the walker has run an iteration and its entry is the last of play_vector
Walked == pc \in {"walk", "publish"} /\ step >= 1

\* C26: every walker step that resolves a jump (to a random non-recent
\* candidate, to the furthest candidate of another quartile, or by restarting
\* at beats[start_beat]) emits seq_pos = 0 and a seq_len that is a multiple of
\* 4 with 16 <= seq_len < max_sequence_len, and seq_pos = seq_len is emitted
\* only when a jump was due and could not be satisfied.
C26_ResolvedJumpResetsSequence ==
    Walked =>
        LET entry == play_vector[Len(play_vector)]
        IN  /\ branch \in {"random", "furthest", "restart"} =>
                   /\ entry.seq_pos = 0
                   /\ entry.seq_len % 4 = 0
                   /\ 16 <= entry.seq_len
                   /\ entry.seq_len < max_sequence_len
            /\ entry.seq_pos = entry.seq_len => branch = "fallthrough"

\* ceil(0.2 * n)
CeilFifth(n) == (n + 4) \div 5

\* C27: after every walker step failed_jumps < 0.2 * n_beats and
\* beats_since_jump <= round(0.1 * n_beats) + ceil(0.2 * n_beats), for every
\* beat graph and every outcome of the random choices: within that many
\* entries the walker jumps to a jump candidate or restarts.
C27_AntiStall ==
    pc \in {"walk", "publish"} =>
        /\ 5 * failed_jumps < Len(beats)
        /\ beats_since_jump
               <= RoundHalfEven(Len(beats), 10) + CeilFifth(Len(beats))

\* a walk that played on after its last jump, then failed to jump and went
\* on to the next beat
C27_Witness ==
    /\ pc \in {"walk", "publish"}
    /\ branch = "fallthrough"
    /\ failed_jumps = 1
    /\ beats_since_jump >= 2

\* C28: with 1 <= start_beat < n_beats the beats of the final list below
\* start_beat are never re-entered: every jump candidate, the last beat's
\* next, the next of last_chance and the restart target are at least
\* start_beat, and so is the beat of every entry of play_vector from the
\* entry start_beat on (entries counted from 0).
C28_NoReentryBelowStart ==
    /\ pc \in {"walk", "publish", "finished", "signal"}
    /\ 1 <= start_beat
    /\ start_beat < Len(beats)
    => /\ \A i \in Ids(beats) : \A c \in Candidates(beats, i) : c >= start_beat
       /\ beats[Len(beats)].next >= start_beat
       /\ beats[last_chance + 1].next >= start_beat
       /\ branch = "restart" => beat = start_beat
       /\ \A t \in 1..Len(play_vector) :
              t - 1 >= start_beat => play_vector[t].beat >= start_beat

\* a walk with start_beat 1 that restarted, over a list in which beat 0
\* would qualify as a jump candidate were it not below start_beat
C28_Witness ==
    /\ pc \in {"walk", "publish"}
    /\ start_beat = 1
    /\ branch = "restart"
    /\ \E i \in Ids(beats) : 0 \in Qualifying(beats, i, 0)

\* C29: whatever the fitness of the candidates, also when every silhouette
\* average and so every fitness is negative, the v2 selector returns a cluster
\* count k with 3 <= k <= 48 (MinK..MaxK here) and the labels computed for it.
C29_ReturnsACandidate ==
    sel_pc = "returned" =>
        /\ best_cluster_size \in MinK..MaxK
        /\ best_labels # << >>
        /\ \E k \in 1..Len(cluster_scores) :
               /\ cluster_scores[k].n_clusters = best_cluster_size
               /\ cluster_scores[k].labels = best_labels

\* C30: the downbeat side file the engine writes for an uploaded file is the
\* file the upload handler loads as starting_beat_cache, so when the file is
\* uploaded again and no pickled engine is available, the run is Seeded from
\* the cache and the downbeat tracker does not run again.  The side file is
\* one of an earlier upload where it is there and this run has not saved.
C30_SecondUploadIsSeeded ==
    /\ uploads >= 2
    /\ side_file = "valid"
    /\ cache_write = "none"
    /\ status # "unbuilt"
    => /\ starting_beat_cache = "array"
       /\ tracker_mode \in {"unset", "Seeded"}

====
